---- MODULE Spec2Model ----
(***************************************************************************)
(* A model of cuepyd (src/cuepyd/__init__.py): the option-set encoder,     *)
(* the file / stdin descriptors, the command builder Cmd.cmd, and the      *)
(* outcome classifier CalledProcessError.                                  *)
(*                                                                         *)
(* Python values are records tagged with their runtime type (field t).     *)
(* A str used on the command line is a sequence of symbols, so that        *)
(* 'json:' is <<"json", ":">> and ''.join is sequence concatenation; the   *)
(* empty str is <<>>.  A str that is encoded to bytes (the input payload)  *)
(* is a sequence of code points, and bytes are sequences of 0..255.        *)
(* The outcome of a call is Ok(value) or Raise(exception type, detail).    *)
(***************************************************************************)
EXTENDS Integers, Sequences, FiniteSets, TLC

VARIABLES
    pc,            \* position of the one Cmd.cmd call: idle, run, check, done
    call,          \* the arguments of the Cmd.cmd call
    spawned,       \* what _sp.run was handed: argument vector and payload
    proc,          \* the CompletedProcess returned by _sp.run
    printed,       \* what print() wrote, in order
    raised,        \* the exception that left Cmd.cmd, if any
    result,        \* the value Cmd.cmd returned, if any
    events,        \* the observable steps of the call, in order
    flags_cmd,     \* an option set of a subcommand (Eval, Def, Vet) or None
    flags_global,  \* a Global option set or None
    file,          \* a file argument: File, Stdin, str, Path or a list
    err,           \* a CalledProcessError object, or None
    ret            \* the last operation applied to the objects above

vars == <<pc, call, spawned, proc, printed, raised, result, events,
          flags_cmd, flags_global, file, err, ret>>

----------------------------------------------------------------------------
(* Bounds *)

MaxSet == 2       \* options given a non-default value, over both option sets
MaxList == 2      \* elements of a list-valued option
MaxFiles == 2     \* elements of a list of files
MaxStream == 2    \* bytes of a captured stream

----------------------------------------------------------------------------
(* Python values *)

None == [t |-> "NoneType"]
Bool(b) == [t |-> "bool", b |-> b]
IntV(n) == [t |-> "int", n |-> n]
Str(s) == [t |-> "str", s |-> s]
List(l) == [t |-> "list", l |-> l]
PathV(s) == [t |-> "Path", s |-> s]

Ok(v) == [exc |-> "none", val |-> v]
Raise(type, detail) == [exc |-> type, val |-> detail]

NotCalled == [op |-> "none"]

RECURSIVE Concat(_)
\* itertools.chain.from_iterable over lists, and ''.join over strs
Concat(seqs) ==
    IF seqs = <<>> THEN <<>> ELSE Head(seqs) \o Concat(Tail(seqs))

\* truth value of an object (bool(x)): None, '' and [] are false; a
\* dataclass instance defines neither __bool__ nor __len__ and is true
Truthy(x) ==
    CASE x.t = "NoneType" -> FALSE
      [] x.t = "bool" -> x.b
      [] x.t = "int" -> x.n # 0
      [] x.t = "str" -> x.s # <<>>
      [] x.t = "list" -> x.l # <<>>
      [] OTHER -> TRUE

----------------------------------------------------------------------------
(* File, File.Encodings, Stdin *)

Encodings == {"JSON", "YAMl", "TEXT", "UNSPECIFIED"}
Modes == {"Input", "Output"}

PATH_STDIN == <<"-">>

File(path, encoding) == [t |-> "File", path |-> path, encoding |-> encoding]
Stdin(contents, encoding) ==
    [t |-> "Stdin", contents |-> contents, encoding |-> encoding, path |-> PATH_STDIN]

\* the value of an Encodings member
EncodingValue(e) ==
    CASE e = "JSON" -> Str(<<"json">>)
      [] e = "YAMl" -> Str(<<"yaml">>)
      [] e = "TEXT" -> Str(<<"txt">>)
      [] e = "UNSPECIFIED" -> None

\* Encodings.to_args that renders UNSPECIFIED as an empty prefix token
Encodings_to_args_empty_prefix(e) ==
    IF e # "UNSPECIFIED" THEN << EncodingValue(e).s \o <<":">> >> ELSE << <<>> >>

Encodings_to_args(e) ==
    IF e # "UNSPECIFIED" THEN << EncodingValue(e).s \o <<":">> >> ELSE <<>>

File_to_args(self, mode) ==
    LET args == Encodings_to_args(self.encoding) \o <<self.path>>
    IN  IF mode = "Output" THEN <<Concat(args)>> ELSE args

Stdin_to_args(self, mode) == File_to_args(self, mode)

parse_file(f, mode) ==
    IF f.t = "File" THEN File_to_args(f, mode) ELSE <<f.s>>

parse_files(files, mode) ==
    IF Truthy(files)
    THEN IF files.t = "list"
         THEN Concat([i \in 1..Len(files.l) |-> parse_file(files.l[i], mode)])
         ELSE parse_file(files, mode)
    ELSE <<>>

----------------------------------------------------------------------------
(* Declared option types and the option-set schemas *)

\* a declared type: its typing origin and its type arguments.  typing
\* flattens Optional[Union[str, list[str]]] and stores None as NoneType.
BoolT == [origin |-> "none", args |-> <<"bool">>]
strOpt == [origin |-> "Union", args |-> <<"str", "NoneType">>]
strListOpt == [origin |-> "Union", args |-> <<"str", "list[str]", "NoneType">>]

Fld(name, type) ==
    [name |-> name, type |-> type,
     default |-> IF type = BoolT THEN Bool(FALSE) ELSE None]

Global ==
    << Fld(<<"all", "_", "errors">>, BoolT),
       Fld(<<"ignore">>, BoolT),
       Fld(<<"simplify">>, BoolT),
       Fld(<<"strict">>, BoolT),
       Fld(<<"trace">>, BoolT),
       Fld(<<"verbose">>, BoolT) >>

Eval ==
    << Fld(<<"all">>, BoolT),
       Fld(<<"concrete">>, BoolT),
       Fld(<<"expression">>, strListOpt),
       Fld(<<"help">>, BoolT),
       Fld(<<"inject">>, strListOpt),
       Fld(<<"list", "_">>, BoolT),
       Fld(<<"merge">>, BoolT),
       Fld(<<"name">>, strOpt),
       Fld(<<"out">>, strOpt),
       Fld(<<"outfile">>, strOpt),
       Fld(<<"package">>, strOpt),
       Fld(<<"path">>, strListOpt),
       Fld(<<"proto", "_", "path">>, strListOpt),
       Fld(<<"schema">>, strOpt),
       Fld(<<"show", "_", "attributes">>, BoolT),
       Fld(<<"show", "_", "hidden">>, BoolT),
       Fld(<<"show", "_", "optional">>, BoolT),
       Fld(<<"with", "_", "context">>, BoolT) >>

Def ==
    << Fld(<<"expression">>, strListOpt),
       Fld(<<"help">>, BoolT),
       Fld(<<"inject">>, strListOpt),
       Fld(<<"list", "_">>, BoolT),
       Fld(<<"merge">>, BoolT),
       Fld(<<"name">>, strOpt),
       Fld(<<"out">>, strOpt),
       Fld(<<"outfile">>, strOpt),
       Fld(<<"package">>, strOpt),
       Fld(<<"path">>, strListOpt),
       Fld(<<"proto", "_", "path">>, strListOpt),
       Fld(<<"schema">>, strOpt),
       Fld(<<"show", "_", "attributes">>, BoolT),
       Fld(<<"with", "_", "context">>, BoolT) >>

Vet ==
    << Fld(<<"concrete">>, BoolT),
       Fld(<<"help">>, BoolT),
       Fld(<<"inject">>, strListOpt),
       Fld(<<"list", "_">>, BoolT),
       Fld(<<"merge">>, BoolT),
       Fld(<<"name">>, strOpt),
       Fld(<<"package">>, strOpt),
       Fld(<<"path">>, strListOpt),
       Fld(<<"proto", "_", "path">>, strListOpt),
       Fld(<<"schema">>, strOpt),
       Fld(<<"with", "_", "context">>, BoolT) >>

CommandClasses == {"Eval", "Def", "Vet"}

\* dataclasses.fields(self)
Fields(cls) ==
    CASE cls = "Global" -> Global
      [] cls = "Eval" -> Eval
      [] cls = "Def" -> Def
      [] cls = "Vet" -> Vet

\* an option set constructed with no argument: every field at its default
New(cls) == [t |-> cls, vals |-> [i \in 1..Len(Fields(cls)) |-> Fields(cls)[i].default]]

\* the option set with field i set to v
With(self, i, v) == [self EXCEPT !.vals[i] = v]

----------------------------------------------------------------------------
(* _field_type and _field_name_flag *)

_field_type(type) ==
    IF type.origin = "Union"
    THEN IF type.args[2] = "None"
         THEN Ok([origin |-> "none", args |-> <<type.args[1]>>])
         ELSE Raise("NotImplementedError", <<>>)
    ELSE Ok(type)

RECURSIVE RStrip(_)
\* str.rstrip('_')
RStrip(s) ==
    IF s # <<>> /\ s[Len(s)] = "_" THEN RStrip(SubSeq(s, 1, Len(s) - 1)) ELSE s

\* str.replace('_', '-')
Replace(s) == [i \in 1..Len(s) |-> IF s[i] = "_" THEN "-" ELSE s[i]]

_field_name_flag(field) == <<"--">> \o Replace(RStrip(field.name))

----------------------------------------------------------------------------
(* Cmd.Flags._Flag *)

\* list(chain.from_iterable(...)) over lazily computed results: the first
\* element that raises ends the iteration with its exception
Chain(rs) ==
    LET bad == {i \in 1..Len(rs) : rs[i].exc # "none"}
    IN  IF bad = {}
        THEN Ok(Concat([i \in 1..Len(rs) |-> rs[i].val]))
        ELSE rs[CHOOSE i \in bad : \A j \in bad : i <= j]

RECURSIVE value_to_args(_, _, _)
value_to_args(flag, type_, value) ==
    IF type_ = BoolT /\ value.t = "bool"
    THEN IF value.b THEN Ok(<<flag>>) ELSE Ok(<<>>)
    ELSE IF value.t # "NoneType"
         THEN IF value.t = "str"
              THEN Ok(<< flag \o <<"=">> \o value.s >>)
              ELSE IF value.t = "list"
                   THEN Chain([i \in 1..Len(value.l) |->
                                  value_to_args(flag, strOpt, value.l[i])])
                   ELSE Raise("ValueError",
                              [flag |-> flag, type |-> type_, value |-> value])
         ELSE Ok(<<>>)

field_to_args(field, value) ==
    LET flag == _field_name_flag(field)
        type_ == field.type
    IN  value_to_args(flag, type_, value)

\* to_args with the fields visited last to first
to_args_reversed(self) ==
    LET fields == Fields(self.t)
        n == Len(fields)
    IN  Chain([i \in 1..n |-> field_to_args(fields[n + 1 - i], self.vals[n + 1 - i])])

to_args(self) ==
    LET fields == Fields(self.t)
    IN  Chain([i \in 1..Len(fields) |-> field_to_args(fields[i], self.vals[i])])

\* Cmd.Flags.parse: the conditional expression binds weaker than +, so the
\* return value is (args + []) if not global_ else global_.to_args()
parse(cmd, global_) ==
    LET args == IF ~Truthy(cmd) THEN Ok(<<>>) ELSE to_args(cmd)
    IN  IF args.exc # "none"
        THEN args
        ELSE IF ~Truthy(global_) THEN Ok(args.val \o <<>>) ELSE to_args(global_)

----------------------------------------------------------------------------
(* Option sets: construction, to_args, parse, _field_type *)

Symbols == {"a", "b"}

\* the list of n strs 'a', 'b', 'a', ...
StrList(n) == List([i \in 1..n |-> Str(<<IF i % 2 = 1 THEN "a" ELSE "b">>)])

Strs == {Str(<<>>), Str(<<"a">>)}
StrLists == {StrList(n) : n \in 0..MaxList}

\* the values of the declared kind of a field, other than its default
OptionValues(field) ==
    CASE field.type = BoolT -> {Bool(TRUE)}
      [] field.type = strOpt -> Strs
      [] field.type = strListOpt -> Strs \cup StrLists

\* the number of fields of an option set that are not at their default
NonDefault(self) ==
    IF self = None THEN 0
    ELSE Cardinality({i \in 1..Len(self.vals) : self.vals[i] # Fields(self.t)[i].default})

Unused ==
    /\ pc = "idle" /\ call = None /\ spawned = None /\ proc = None
    /\ printed = <<>> /\ raised = None /\ result = None /\ events = <<>>

InitFlags ==
    /\ Unused
    /\ flags_cmd \in {None} \cup {New(c) : c \in CommandClasses}
    /\ flags_global \in {None, New("Global")}
    /\ file = None
    /\ err = None
    /\ ret = NotCalled

\* a keyword argument of the constructor of the command option set
SetCmdField ==
    /\ ret = NotCalled
    /\ flags_cmd # None
    /\ NonDefault(flags_cmd) + NonDefault(flags_global) < MaxSet
    /\ \E i \in 1..Len(flags_cmd.vals) :
          /\ flags_cmd.vals[i] = Fields(flags_cmd.t)[i].default
          /\ \E v \in OptionValues(Fields(flags_cmd.t)[i]) :
                flags_cmd' = With(flags_cmd, i, v)
    /\ UNCHANGED <<pc, call, spawned, proc, printed, raised, result, events,
                   flags_global, file, err, ret>>

\* a keyword argument of the constructor of the global option set
SetGlobalField ==
    /\ ret = NotCalled
    /\ flags_global # None
    /\ NonDefault(flags_cmd) + NonDefault(flags_global) < MaxSet
    /\ \E i \in 1..Len(flags_global.vals) :
          /\ flags_global.vals[i] = Fields(flags_global.t)[i].default
          /\ \E v \in OptionValues(Fields(flags_global.t)[i]) :
                flags_global' = With(flags_global, i, v)
    /\ UNCHANGED <<pc, call, spawned, proc, printed, raised, result, events,
                   flags_cmd, file, err, ret>>

ToArgsCmd ==
    /\ ret = NotCalled
    /\ flags_cmd # None
    /\ ret' = [op |-> "to_args", self |-> flags_cmd, res |-> to_args(flags_cmd)]
    /\ UNCHANGED <<pc, call, spawned, proc, printed, raised, result, events,
                   flags_cmd, flags_global, file, err>>

ToArgsGlobal ==
    /\ ret = NotCalled
    /\ flags_global # None
    /\ ret' = [op |-> "to_args", self |-> flags_global, res |-> to_args(flags_global)]
    /\ UNCHANGED <<pc, call, spawned, proc, printed, raised, result, events,
                   flags_cmd, flags_global, file, err>>

Parse ==
    /\ ret = NotCalled
    /\ ret' = [op |-> "parse", res |-> parse(flags_cmd, flags_global)]
    /\ UNCHANGED <<pc, call, spawned, proc, printed, raised, result, events,
                   flags_cmd, flags_global, file, err>>

\* _field_type applied to a field of the class of an option set
FieldType ==
    /\ ret = NotCalled
    /\ \E self \in {flags_cmd, flags_global} \ {None} :
          /\ NonDefault(self) = 0
          /\ \E i \in 1..Len(Fields(self.t)) :
                ret' = [op |-> "_field_type", field |-> Fields(self.t)[i],
                        res |-> _field_type(Fields(self.t)[i].type)]
    /\ UNCHANGED <<pc, call, spawned, proc, printed, raised, result, events,
                   flags_cmd, flags_global, file, err>>

NextFlags ==
    \/ SetCmdField
    \/ SetGlobalField
    \/ ToArgsCmd
    \/ ToArgsGlobal
    \/ Parse
    \/ FieldType

SpecFlags == InitFlags /\ [][NextFlags]_vars

----------------------------------------------------------------------------
(* Claims about the option-set encoder (SpecFlags) *)

\* the tokens the option grammar assigns to one option: a bare flag for a
\* true boolean, flag=v for a str, one flag=element per list element, and
\* nothing for False and None
OptionTokens(field, v) ==
    LET flag == _field_name_flag(field)
    IN  CASE v.t = "bool" -> IF v.b THEN <<flag>> ELSE <<>>
          [] v.t = "NoneType" -> <<>>
          [] v.t = "str" -> << flag \o <<"=">> \o v.s >>
          [] v.t = "list" -> [i \in 1..Len(v.l) |-> flag \o <<"=">> \o v.l[i].s]

SetTokens(self) ==
    Concat([i \in 1..Len(self.vals) |-> OptionTokens(Fields(self.t)[i], self.vals[i])])

\* C6: encoding an option set yields, in field declaration order, the
\* tokens of each option: [flag] for a true boolean, nothing for a false
\* boolean or an absent option, flag=v for a str, and one flag=element per
\* element of a list, in element order; every flag starts with -- and has no
\* underscore; the option set is the one that was encoded, unmodified.
C6_ToArgsEncodesInDeclarationOrder ==
    ret.op = "to_args" =>
        /\ ret.res.exc = "none"
        /\ ret.res.val = SetTokens(ret.self)
        /\ \A k \in 1..Len(ret.res.val) :
              /\ ret.res.val[k][1] = "--"
              /\ \A j \in 1..Len(ret.res.val[k]) : ret.res.val[k][j] # "_"
        /\ ret.self \in {flags_cmd, flags_global}

\* an Eval option set with a list of two expressions and list_ set has been
\* encoded to --expression=a --expression=b --list
C6_Witness ==
    /\ ret.op = "to_args"
    /\ ret.self.t = "Eval"
    /\ ret.self.vals[3] = StrList(2)
    /\ ret.self.vals[6] = Bool(TRUE)
    /\ ret.res.exc = "none"
    /\ ret.res.val = << <<"--", "expression", "=", "a">>,
                        <<"--", "expression", "=", "b">>,
                        <<"--", "list">> >>

\* a declared type Optional[X] of a single type X
SupportedOptional(type) ==
    type.origin = "Union" /\ Len(type.args) = 2 /\ type.args[2] = "NoneType"

\* a declared union type of any other shape
UnsupportedUnion(type) == type.origin = "Union" /\ ~SupportedOptional(type)

\* C9: encoding an option set that declares an option of an unsupported
\* union shape fails with NotImplementedError, and _field_type unwraps a
\* supported Optional[X] to X without error.
C9_UnsupportedUnionDetectedWhenEncoding ==
    /\ ret.op = "to_args" =>
          ((\E i \in 1..Len(Fields(ret.self.t)) : UnsupportedUnion(Fields(ret.self.t)[i].type))
              => ret.res.exc = "NotImplementedError")
    /\ ret.op = "_field_type" =>
          (SupportedOptional(ret.field.type) =>
              /\ ret.res.exc = "none"
              /\ ret.res.val = [origin |-> "none", args |-> <<ret.field.type.args[1]>>])

\* the tokens of an option set that may be absent
TokensOrNone(self) == IF self = None THEN <<>> ELSE SetTokens(self)

\* C10: Cmd.Flags.parse returns the tokens of the command option set
\* followed by the tokens of the global option set; an absent set contributes
\* nothing and a global set removes no command token.
C10_ParseIsCommandThenGlobalTokens ==
    ret.op = "parse" =>
        /\ ret.res.exc = "none"
        /\ ret.res.val = TokensOrNone(flags_cmd) \o TokensOrNone(flags_global)

----------------------------------------------------------------------------
(* File arguments: rendering (SpecFile) *)

Paths == {<<>>, <<"a">>, <<"-">>}

\* the UTF-8 texts used as stdin contents and bare input: '', 'a', U+00E9
Texts == {<<>>, <<97>>, <<233>>}

Files == {File(p, e) : p \in Paths, e \in Encodings}
Stdins == {Stdin(c, e) : c \in Texts, e \in Encodings}

\* str(path) of a pathlib.Path is never empty: Path('') is '.'
FileStrs == Files \cup {Str(p) : p \in Paths} \cup {PathV(<<"a">>), PathV(<<".">>)}

FileLists == UNION {[1..n -> FileStrs] : n \in 0..MaxFiles}

InitFile ==
    /\ Unused
    /\ flags_cmd = None
    /\ flags_global = None
    /\ file \in FileStrs \cup Stdins \cup {List(l) : l \in FileLists} \cup {None}
    /\ err = None
    /\ ret = NotCalled

\* file.to_args(mode) on a File or a Stdin
ToArgsFile ==
    /\ ret = NotCalled
    /\ file.t \in {"File", "Stdin"}
    /\ \E mode \in Modes :
          ret' = [op |-> "to_args", mode |-> mode,
                  res |-> IF file.t = "File" THEN File_to_args(file, mode)
                                             ELSE Stdin_to_args(file, mode)]
    /\ UNCHANGED <<pc, call, spawned, proc, printed, raised, result, events,
                   flags_cmd, flags_global, file, err>>

\* Cmd.parse_file(file, mode) on a File, a str or a Path
ParseFile ==
    /\ ret = NotCalled
    /\ file.t \in {"File", "str", "Path"}
    /\ \E mode \in Modes :
          ret' = [op |-> "parse_file", mode |-> mode, res |-> parse_file(file, mode)]
    /\ UNCHANGED <<pc, call, spawned, proc, printed, raised, result, events,
                   flags_cmd, flags_global, file, err>>

\* Cmd.parse_files(files, mode) on None, a File, a str, a Path or a list
ParseFiles ==
    /\ ret = NotCalled
    /\ file.t # "Stdin"
    /\ \E mode \in Modes :
          ret' = [op |-> "parse_files", mode |-> mode, res |-> parse_files(file, mode)]
    /\ UNCHANGED <<pc, call, spawned, proc, printed, raised, result, events,
                   flags_cmd, flags_global, file, err>>

NextFile ==
    \/ ToArgsFile
    \/ ParseFile
    \/ ParseFiles

SpecFile == InitFile /\ [][NextFile]_vars

----------------------------------------------------------------------------
(* Claims about file rendering (SpecFile) *)

\* the encoding prefix '<encoding>:' of the encoding-prefix grammar; the
\* empty str when the encoding is unspecified
Prefix(e) ==
    CASE e = "JSON" -> <<"json", ":">>
      [] e = "YAMl" -> <<"yaml", ":">>
      [] e = "TEXT" -> <<"txt", ":">>
      [] e = "UNSPECIFIED" -> <<>>

\* the rendering of one File, Stdin, str or Path that C7 describes
Rendering(f, mode) ==
    IF f.t \in {"File", "Stdin"}
    THEN LET path == IF f.t = "Stdin" THEN <<"-">> ELSE f.path
         IN  IF mode = "Output" THEN << Prefix(f.encoding) \o path >>
             ELSE IF f.encoding = "UNSPECIFIED" THEN <<path>>
                  ELSE <<Prefix(f.encoding), path>>
    ELSE <<f.s>>

RenderingIsAsDescribed ==
    /\ ret.op \in {"to_args", "parse_file"} => ret.res = Rendering(file, ret.mode)
    /\ (ret.op = "parse_files" /\ file.t \notin {"list", "NoneType"} /\ Truthy(file))
          => ret.res = Rendering(file, ret.mode)
    /\ (ret.op = "parse_files" /\ file.t = "list")
          => ret.res = Concat([i \in 1..Len(file.l) |-> Rendering(file.l[i], ret.mode)])

\* the paths and bare strings of a file argument
PathsOf(f) ==
    CASE f.t = "File" -> {f.path}
      [] f.t = "Stdin" -> {<<"-">>}
      [] f.t \in {"str", "Path"} -> {f.s}
      [] f.t = "list" -> {IF f.l[i].t = "File" THEN f.l[i].path ELSE f.l[i].s :
                             i \in 1..Len(f.l)}
      [] OTHER -> {}

\* C7 as claimed: the renderings are as described, and no rendering ever
\* contains an empty-string token.
C7_NoRenderingHasAnEmptyToken ==
    /\ RenderingIsAsDescribed
    /\ ret.op # "none" => \A k \in 1..Len(ret.res) : ret.res[k] # <<>>

\* C7 as amended: Output mode renders a File or Stdin as the one token
\* prefix + path, Input mode as the prefix token and then the path, or the
\* path alone when the encoding is unspecified; a bare str or Path renders
\* as itself in either mode; the prefix is never an empty token, and a
\* rendering contains an empty token only when a path or bare string of
\* the argument is itself empty.
C7_RenderingOfFiles ==
    /\ RenderingIsAsDescribed
    /\ ret.op # "none" =>
          ((\E k \in 1..Len(ret.res) : ret.res[k] = <<>>) => <<>> \in PathsOf(file))
    /\ (ret.op # "none" /\ <<>> \notin PathsOf(file)) =>
          \A k \in 1..Len(ret.res) : ret.res[k] # <<>>

\* a list of a bare str and a JSON File has been rendered in Input mode,
\* the File as two tokens
C7_Witness ==
    /\ ret.op = "parse_files"
    /\ ret.mode = "Input"
    /\ file = List(<<Str(<<"a">>), File(<<"a">>, "JSON")>>)
    /\ ret.res = << <<"a">>, <<"json", ":">>, <<"a">> >>

----------------------------------------------------------------------------
(* bytes and UTF-8 *)

\* str.encode(): code points below 0x80 take one byte, below 0x800 two
Utf8Encode(text) ==
    Concat([i \in 1..Len(text) |->
               IF text[i] < 128 THEN <<text[i]>>
               ELSE <<192 + (text[i] \div 64), 128 + (text[i] % 64)>>])

RECURSIVE Utf8Decode(_)
\* bytes.decode(): a byte below 0x80 is one code point; a lead byte
\* 0xC2..0xDF takes one continuation byte 0x80..0xBF; a continuation byte
\* alone or a truncated sequence raises UnicodeDecodeError.  (The bytes
\* of the model are below 0xE0, so longer sequences do not occur.)
Utf8Decode(b) ==
    IF b = <<>> THEN Ok(<<>>)
    ELSE IF b[1] < 128
         THEN LET rest == Utf8Decode(Tail(b))
              IN  IF rest.exc # "none" THEN rest ELSE Ok(<<b[1]>> \o rest.val)
         ELSE IF b[1] \in 194..223 /\ Len(b) >= 2 /\ b[2] \in 128..191
              THEN LET rest == Utf8Decode(Tail(Tail(b)))
                   IN  IF rest.exc # "none" THEN rest
                       ELSE Ok(<<(b[1] - 192) * 64 + (b[2] - 128)>> \o rest.val)
              ELSE Raise("UnicodeDecodeError", b)

StreamBytes == {97, 195, 169}

\* the byte strings a child process can write to a stream
Streams == UNION {[1..n -> StreamBytes] : n \in 0..MaxStream}

----------------------------------------------------------------------------
(* CalledProcessError *)

CompletedProcess(args, returncode, stdout, stderr) ==
    [args |-> args, returncode |-> returncode, stdout |-> stdout, stderr |-> stderr]

\* the dataclass __init__ and __post_init__
CalledProcessError(p, input) ==
    [t |-> "CalledProcessError", input |-> input, args |-> p.args,
     return_code |-> p.returncode, output |-> p.stdout, error |-> p.stderr]

\* signal.Signals(n): the member of the host's signal table (Linux: 1..31
\* and the real-time signals 34..64), ValueError for any other number
Signals(n) ==
    IF n \in (1..31) \cup (34..64)
    THEN Ok([name |-> CASE n = 2 -> "SIGINT"
                        [] n = 9 -> "SIGKILL"
                        [] n = 15 -> "SIGTERM"
                        [] OTHER -> "SIG" \o ToString(n),
             value |-> n])
    ELSE Raise("ValueError", n)

\* format() of an IntEnum member in an f-string is int.__format__ of its
\* value: f'{signal.Signals(9)}' is '9'
FormatIntEnum(member) == ToString(member.value)

RECURSIVE JoinSpace(_)
\* ' '.join(args)
JoinSpace(args) ==
    IF args = <<>> THEN <<>>
    ELSE IF Len(args) = 1 THEN args[1]
         ELSE args[1] \o <<" ">> \o JoinSpace(Tail(args))

\* one '\n\t<label>:\t<text>' line of the message, none for empty bytes
Line(label, bytes) ==
    IF bytes = <<>> THEN Ok(<<>>)
    ELSE LET d == Utf8Decode(bytes)
         IN  IF d.exc # "none" THEN d ELSE Ok(<<[label |-> label, text |-> d.val]>>)

\* CalledProcessError.__str__: the message is its first line (symbols) and
\* its labelled lines
__str__(self) ==
    IF self.return_code = 0
    THEN Raise("ValueError", "Invalid return code 0 for subprocess.")
    ELSE LET return_context ==
                 IF self.return_code < 0
                 THEN IF Signals(-self.return_code).exc = "none"
                      THEN <<"died with ", FormatIntEnum(Signals(-self.return_code).val), ".">>
                      ELSE <<"died with unknown signal ", ToString(-self.return_code), ".">>
                 ELSE <<"returned non-zero exit status ", ToString(self.return_code), ".">>
             lines == Chain(<<Line("input", self.input), Line("error", self.error),
                              Line("output", self.output)>>)
         IN  IF lines.exc # "none" THEN lines
             ELSE Ok([first |-> <<"Subprocess ">> \o JoinSpace(self.args) \o <<" ">>
                                   \o return_context,
                      lines |-> lines.val])

\* CalledProcessError.check: what it prints and how it ends
check(p, input) ==
    IF p.returncode # 0
    THEN LET e == CalledProcessError(p, input)
             s == __str__(e)
         IN  IF s.exc # "none"
             THEN [printed |-> <<>>, res |-> s]
             ELSE [printed |-> <<s.val>>,
                   res |-> Raise("CalledProcessError", CalledProcessError(p, input))]
    ELSE [printed |-> <<>>, res |-> Ok(None)]

----------------------------------------------------------------------------
(* CalledProcessError: construction, rendering, check (SpecErr) *)

ReturnCodes == {0, 1, 2, -9, -15, -77}

SampleArgs == << <<"cue">>, <<"eval">>, <<"-">> >>

InitErr ==
    /\ pc = "idle" /\ call = None /\ raised = None /\ result = None /\ events = <<>>
    /\ printed = <<>>
    /\ \E t \in Texts : spawned = [args |-> SampleArgs, input |-> Utf8Encode(t)]
    /\ \E rc \in ReturnCodes, out \in Streams, e \in Streams :
          proc = CompletedProcess(SampleArgs, rc, out, e)
    /\ flags_cmd = None
    /\ flags_global = None
    /\ file = None
    /\ err = None
    /\ ret = NotCalled

\* CalledProcessError(proc, input)
Construct ==
    /\ err = None
    /\ ret = NotCalled
    /\ err' = CalledProcessError(proc, spawned.input)
    /\ UNCHANGED <<pc, call, spawned, proc, printed, raised, result, events,
                   flags_cmd, flags_global, file, ret>>

\* str(err)
StrErr ==
    /\ err # None
    /\ ret = NotCalled
    /\ ret' = [op |-> "__str__", res |-> __str__(err)]
    /\ UNCHANGED <<pc, call, spawned, proc, printed, raised, result, events,
                   flags_cmd, flags_global, file, err>>

\* CalledProcessError.check(proc, input)
Check ==
    /\ err = None
    /\ ret = NotCalled
    /\ LET c == check(proc, spawned.input)
       IN  /\ printed' = printed \o c.printed
           /\ ret' = [op |-> "check", res |-> c.res]
           /\ err' = IF c.res.exc = "CalledProcessError" THEN c.res.val ELSE err
    /\ UNCHANGED <<pc, call, spawned, proc, raised, result, events,
                   flags_cmd, flags_global, file>>

NextErr ==
    \/ Construct
    \/ StrErr
    \/ Check

SpecErr == InitErr /\ [][NextErr]_vars

----------------------------------------------------------------------------
(* Claims about CalledProcessError (SpecErr) *)

\* C3: no CalledProcessError object has return_code 0: constructing one
\* from a completed process whose exit code is 0 fails.
C3_NoErrorObjectForExitCodeZero ==
    err # None => err.return_code # 0

\* the description of the exit code that C8 gives
DescribedContext(c) ==
    IF c < 0
    THEN IF Signals(-c).exc = "none"
         THEN <<"died with ", Signals(-c).val.name, ".">>
         ELSE <<"died with unknown signal ", ToString(-c), ".">>
    ELSE <<"returned non-zero exit status ", ToString(c), ".">>

\* the labelled line of a non-empty stream, none for an empty one
DescribedLine(label, bytes) ==
    IF bytes = <<>> THEN <<>> ELSE <<[label |-> label, text |-> Utf8Decode(bytes).val]>>

\* C8: the rendering of a failure names the signal of a negative exit code
\* ('died with <signal-name>', or 'died with unknown signal <n>'), gives
\* 'returned non-zero exit status <c>' for a positive one, and then the
\* decoded input, error and output, in that order, each only when non-empty.
C8_RenderingClassifiesExitCode ==
    (ret.op = "__str__" /\ ret.res.exc = "none") =>
        /\ ret.res.val.first = <<"Subprocess ">> \o JoinSpace(err.args) \o <<" ">>
                                  \o DescribedContext(err.return_code)
        /\ ret.res.val.lines = DescribedLine("input", err.input)
                                  \o DescribedLine("error", err.error)
                                  \o DescribedLine("output", err.output)

----------------------------------------------------------------------------
(* Cmd.cmd: build the argument vector, run the process, check the outcome  *)
(* (Spec)                                                                  *)

\* the index of the field of a class with a given name
FieldIndex(cls, name) == CHOOSE i \in 1..Len(Fields(cls)) : Fields(cls)[i].name = name

\* the constructor with one keyword argument
New1(cls, name, v) == With(New(cls), FieldIndex(cls, name), v)

\* the command option sets passed to eval, def_ and vet: absent, default,
\* of the declared kinds, and of other kinds
CallFlagsCmd(cls) ==
    { None, New(cls),
      New1(cls, <<"help">>, Bool(TRUE)),
      New1(cls, <<"inject">>, StrList(2)),
      With(New1(cls, <<"inject">>, Str(<<"a">>)), FieldIndex(cls, <<"help">>), Bool(TRUE)),
      New1(cls, <<"help">>, Str(<<"a">>)),
      New1(cls, <<"name">>, Bool(TRUE)),
      New1(cls, <<"name">>, StrList(2)),
      New1(cls, <<"inject">>, List(<<Str(<<"a">>), IntV(3)>>)) }

CallFlagsGlobal ==
    { None, New("Global"),
      New1("Global", <<"verbose">>, Bool(TRUE)),
      With(New1("Global", <<"verbose">>, Bool(TRUE)), 1, Bool(TRUE)),
      New1("Global", <<"verbose">>, Str(<<"a">>)),
      New1("Global", <<"trace">>, IntV(1)) }

CallFiles ==
    { None, Str(<<>>), Str(<<"a">>), File(<<"a">>, "JSON"),
      List(<<Str(<<"a">>), File(<<"b">>, "YAMl")>>) }

CallInputs ==
    { None, Str(<<>>), Str(<<97>>), Str(<<233>>),
      Stdin(<<97, 233>>, "UNSPECIFIED"), Stdin(<<97>>, "JSON") }

\* the subcommand of each wrapper (eval, def_, vet) and its option class
Subcommand(cls) ==
    CASE cls = "Eval" -> <<"eval">>
      [] cls = "Def" -> <<"def">>
      [] cls = "Vet" -> <<"vet">>

\* what the child process of a call can write to each of its streams
CallStreams == {<<>>, <<97>>, <<195, 169>>, <<195>>}

CallReturnCodes == {0, 1, -9}

\* input.encode(): str.encode, Stdin.encode, or the AttributeError of None
Encode(input) ==
    CASE input.t = "str" -> Ok(Utf8Encode(input.s))
      [] input.t = "Stdin" -> Ok(Utf8Encode(input.contents))
      [] OTHER -> Raise("AttributeError", "encode")

\* the arguments of _sp.run, evaluated left to right: the argument vector,
\* then the payload
RunArguments(c) ==
    LET files == parse_files(c.files, "Input")
        input == IF c.input.t = "str" THEN << <<"-">> >>
                 ELSE IF ~Truthy(c.input) THEN <<>>
                      ELSE Stdin_to_args(c.input, "Input")
        flags == parse(c.flags_cmd, c.flags_global)
        payload == Encode(c.input)
    IN  IF flags.exc # "none" THEN flags
        ELSE IF payload.exc # "none" THEN payload
             ELSE Ok([args |-> << <<"cue">>, c.cmd >> \o files \o input \o flags.val,
                      input |-> payload.val])

Init ==
    /\ pc = "idle"
    /\ call = None
    /\ spawned = None
    /\ proc = None
    /\ printed = <<>>
    /\ raised = None
    /\ result = None
    /\ events = <<>>
    /\ flags_cmd = None
    /\ flags_global = None
    /\ file = None
    /\ err = None
    /\ ret = NotCalled

\* Cmd.eval, Cmd.def_ or Cmd.vet is called: Cmd.cmd up to the launch of
\* the child process by _sp.run
Cmd_cmd ==
    /\ pc = "idle"
    /\ \E cls \in CommandClasses :
       \E fc \in CallFlagsCmd(cls), fg \in CallFlagsGlobal,
          fs \in CallFiles, i \in CallInputs :
          LET c == [cmd |-> Subcommand(cls), input |-> i, files |-> fs,
                    flags_cmd |-> fc, flags_global |-> fg]
              r == RunArguments(c)
          IN  /\ call' = c
              /\ IF r.exc # "none"
                 THEN /\ raised' = r
                      /\ events' = <<"raise">>
                      /\ pc' = "done"
                      /\ UNCHANGED spawned
                 ELSE /\ spawned' = r.val
                      /\ events' = <<"spawn">>
                      /\ pc' = "run"
                      /\ UNCHANGED raised
    /\ UNCHANGED <<proc, printed, result, flags_cmd, flags_global, file, err, ret>>

\* the child process ends and _sp.run returns its CompletedProcess
ProcessExit ==
    /\ pc = "run"
    /\ \E rc \in CallReturnCodes, out \in CallStreams, e \in CallStreams :
          proc' = CompletedProcess(spawned.args, rc, out, e)
    /\ events' = Append(events, "exit")
    /\ pc' = "check"
    /\ UNCHANGED <<call, spawned, printed, raised, result,
                   flags_cmd, flags_global, file, err, ret>>

\* CalledProcessError.check(run, input.encode()) and the return of
\* run.stdout.decode()
CheckAndReturn ==
    /\ pc = "check"
    /\ LET c == check(proc, Encode(call.input).val)
           d == Utf8Decode(proc.stdout)
       IN  /\ printed' = printed \o c.printed
           /\ IF c.res.exc # "none"
              THEN /\ raised' = c.res
                   /\ events' = events \o [k \in 1..Len(c.printed) |-> "print"] \o <<"raise">>
                   /\ UNCHANGED result
              ELSE IF d.exc # "none"
                   THEN /\ raised' = d
                        /\ events' = Append(events, "raise")
                        /\ UNCHANGED result
                   ELSE /\ result' = Str(d.val)
                        /\ events' = Append(events, "return")
                        /\ UNCHANGED raised
    /\ pc' = "done"
    /\ UNCHANGED <<call, spawned, proc, flags_cmd, flags_global, file, err, ret>>

Next ==
    \/ Cmd_cmd
    \/ ProcessExit
    \/ CheckAndReturn

Spec == Init /\ [][Next]_vars

----------------------------------------------------------------------------
(* Claims about Cmd.cmd (Spec) *)

\* the runtime value v is of the declared kind of the field
MatchesKind(field, v) ==
    CASE field.type = BoolT -> v.t = "bool"
      [] field.type = strOpt -> v.t \in {"str", "NoneType"}
      [] field.type = strListOpt ->
            \/ v.t \in {"str", "NoneType"}
            \/ v.t = "list" /\ \A k \in 1..Len(v.l) : v.l[k].t = "str"

\* every option of the option set (if any) is of its declared kind
WellTyped(self) ==
    self = None \/ \A i \in 1..Len(self.vals) : MatchesKind(Fields(self.t)[i], self.vals[i])

\* the Input-mode tokens of the files of a call
FileTokens(files) ==
    IF files.t = "list"
    THEN Concat([i \in 1..Len(files.l) |-> Rendering(files.l[i], "Input")])
    ELSE Rendering(files, "Input")

\* the token(s) of a supplied input: '-' for a bare string, the Input-mode
\* tokens of a Stdin
InputTokens(input) ==
    IF input.t = "str" THEN << <<"-">> >> ELSE Rendering(input, "Input")

\* C1: with non-empty files, input and option sets, the argument vector of
\* the process is ['cue', subcommand], then the file tokens, then the input
\* token(s), then the option-set tokens (command, then global), with no
\* group reordered, interleaved or dropped.
C1_ArgumentVectorOrder ==
    (/\ spawned # None
     /\ Truthy(call.files)
     /\ Truthy(call.input)
     /\ call.flags_cmd # None /\ call.flags_global # None
     /\ WellTyped(call.flags_cmd) /\ WellTyped(call.flags_global))
    => spawned.args = << <<"cue">>, call.cmd >>
                        \o FileTokens(call.files)
                        \o InputTokens(call.input)
                        \o SetTokens(call.flags_cmd)
                        \o SetTokens(call.flags_global)

\* C2: when an option of the option sets of a call (with an input) has a
\* value that is not of its declared kind, the call fails with ValueError
\* and no process is spawned.
C2_MismatchFailsBeforeSpawn ==
    (/\ pc # "idle"
     /\ call.input # None
     /\ ~(WellTyped(call.flags_cmd) /\ WellTyped(call.flags_global)))
    => /\ raised # None
       /\ raised.exc = "ValueError"
       /\ spawned = None

\* C4: when the process has exited with code 0 the check prints nothing
\* and raises nothing and Cmd.cmd returns the decoded stdout; when it has
\* exited with another code, the error is printed exactly once, then
\* raised, after the launch, and Cmd.cmd returns nothing.
C4_FailureIsPrintedOnceThenRaised ==
    (pc = "done" /\ proc # None) =>
        /\ proc.returncode = 0 =>
              /\ printed = <<>>
              /\ Utf8Decode(proc.stdout).exc = "none" =>
                    /\ raised = None
                    /\ result = Str(Utf8Decode(proc.stdout).val)
                    /\ events = <<"spawn", "exit", "return">>
        /\ proc.returncode # 0 =>
              /\ Len(printed) = 1
              /\ raised # None
              /\ raised.exc = "CalledProcessError"
              /\ result = None
              /\ events = <<"spawn", "exit", "print", "raise">>

\* no input is supplied: None, or the empty default
NoInput(input) == input = None \/ (input.t = "str" /\ input.s = <<>>)

\* the text of a supplied input
InputText(input) == IF input.t = "str" THEN input.s ELSE input.contents

\* C5: a call whose option sets encode without error launches the process;
\* without input the argument vector has no input token and the payload is
\* empty; with input the payload is the UTF-8 encoding of the input, and
\* the same bytes are recorded in a resulting error.
C5_PayloadAndInputTokens ==
    (pc # "idle" /\ parse(call.flags_cmd, call.flags_global).exc = "none") =>
        /\ spawned # None
        /\ NoInput(call.input) =>
              /\ spawned.args = << <<"cue">>, call.cmd >>
                                   \o parse_files(call.files, "Input")
                                   \o parse(call.flags_cmd, call.flags_global).val
              /\ spawned.input = <<>>
        /\ ~NoInput(call.input) =>
              /\ spawned.input = Utf8Encode(InputText(call.input))
              /\ (raised # None /\ raised.exc = "CalledProcessError")
                    => raised.val.input = spawned.input

====
